---- MODULE Spec2Model ----
(***************************************************************************)
(* Forecast-accuracy metrics of lib/evaluation/metrics.py: the five error  *)
(* functions (MAPE, SMAPE, MSE, RMSE, MAE) and the get_perf_metrics        *)
(* pipeline (_preprocess_eval_df, _compute_metrics, _format_eval_results). *)
(*                                                                         *)
(* Floating-point values are modelled by exact rationals <<n, d>> in       *)
(* lowest terms with d > 0; not-a-number is <<0, 0>> (the 0/0 that         *)
(* produces it); a square root of the rational n/d is <<n, d, 2>>.         *)
(***************************************************************************)
EXTENDS Integers, Sequences, FiniteSets, TLC

VARIABLES
    y_true, y_pred,   \* arguments of the error function being called
    called,           \* name of the error function that was called, or "none"
    ret,              \* value it returned
    evaluation_df,    \* input table of get_perf_metrics: rows [key, truth, forecast]
    use_cv,           \* cross-validation flag
    eval,             \* [metrics, get_perf_on_agg_forecast]
    pc,               \* position inside get_perf_metrics
    df,               \* result of _preprocess_eval_df
    metrics_df,       \* the metrics table / display table being built
    metrics_dict      \* mapping metric name -> per-metric table

vars == <<y_true, y_pred, called, ret, evaluation_df, use_cv, eval, pc, df,
          metrics_df, metrics_dict>>

metricVars == <<y_true, y_pred, called, ret>>
perfVars == <<evaluation_df, use_cv, eval, pc, df, metrics_df, metrics_dict>>

----------------------------------------------------------------------------
(* Bounds *)

MaxLen == 3      \* longest y_true / y_pred drawn for the error functions
MaxRows == 3     \* most rows of a drawn evaluation_df

----------------------------------------------------------------------------
(* float64 arithmetic, exact *)

Abs(x) == IF x < 0 THEN -x ELSE x

RECURSIVE GCD(_, _)
GCD(a, b) == IF b = 0 THEN a ELSE GCD(b, a % b)

NaN == <<0, 0>>

IsNaN(q) == q[2] = 0

\* n/d in lowest terms; a zero divisor only ever meets a zero dividend here
\* (mean of an empty slice, variance of a single value), which is nan.
Frac(n, d) ==
    IF d = 0 THEN NaN
    ELSE LET g == GCD(Abs(n), Abs(d))
             s == IF d < 0 THEN -1 ELSE 1
         IN <<(s * n) \div g, (s * d) \div g>>

Num(i) == <<i, 1>>

RAdd(a, b) ==
    IF IsNaN(a) \/ IsNaN(b) THEN NaN
    ELSE LET g == GCD(a[2], b[2])
         IN Frac(a[1] * (b[2] \div g) + b[1] * (a[2] \div g), (a[2] \div g) * b[2])

RNeg(a) == IF IsNaN(a) THEN NaN ELSE <<-a[1], a[2]>>

RSub(a, b) == RAdd(a, RNeg(b))

RMul(a, b) ==
    IF IsNaN(a) \/ IsNaN(b) THEN NaN
    ELSE LET g1 == GCD(Abs(a[1]), b[2])
             g2 == GCD(Abs(b[1]), a[2])
         IN Frac((a[1] \div g1) * (b[1] \div g2), (a[2] \div g2) * (b[2] \div g1))

RDiv(a, b) ==
    IF IsNaN(a) \/ IsNaN(b) \/ b[1] = 0 THEN NaN
    ELSE RMul(a, IF b[1] < 0 THEN <<-b[2], -b[1]>> ELSE <<b[2], b[1]>>)

RAbs(a) == IF IsNaN(a) THEN NaN ELSE <<Abs(a[1]), a[2]>>

\* np.sqrt
Sqrt(q) == IF IsNaN(q) THEN NaN ELSE <<q[1], q[2], 2>>

\* IEEE comparisons: every comparison with nan is false
FloatEq(a, b) == ~IsNaN(a) /\ ~IsNaN(b) /\ a = b

FloatGeqZero(a) == ~IsNaN(a) /\ a[1] >= 0

RECURSIVE RSum(_)
RSum(xs) == IF xs = <<>> THEN Num(0) ELSE RAdd(Head(xs), RSum(Tail(xs)))

\* np.mean / ndarray.mean: sum over count, nan for an empty array
Mean(xs) == RDiv(RSum(xs), Num(Len(xs)))

\* np.array(y).ravel(): a scalar becomes a one-element array
Ravel(y) == y

\* np.where(cond)[0]: the positions, ascending, where the boolean array holds
RECURSIVE WhereFrom(_, _)
WhereFrom(cond, i) ==
    IF i > Len(cond) THEN <<>>
    ELSE IF cond[i] THEN <<i>> \o WhereFrom(cond, i + 1) ELSE WhereFrom(cond, i + 1)

Where(cond) == WhereFrom(cond, 1)

\* y[mask]
Take(y, mask) == [j \in 1..Len(mask) |-> y[mask[j]]]

\* y[mask] raises IndexError when the mask reaches past the array
IndexError(y, mask) == \E j \in 1..Len(mask) : mask[j] > Len(y)

----------------------------------------------------------------------------
(* The five error functions *)

\* MapeTerm with the absolute value forgotten
MapeTermSigned(t, p) == RDiv(Num(t - p), Num(t))

MapeTerm(t, p) == RAbs(RDiv(Num(t - p), Num(t)))

\* MAPE that zeroes the zero-truth points and averages over all points
\* (clamp-then-average) instead of dropping them
MAPEClamped(yt, yp) ==
    Mean([i \in 1..Len(yt) |-> IF yt[i] = 0 THEN Num(0) ELSE MapeTerm(yt[i], yp[i])])

MAPE(yt, yp) ==
    LET a == Ravel(yt)
        b == Ravel(yp)
        mask == Where([i \in 1..Len(a) |-> a[i] # 0])
    IN IF IndexError(b, mask) THEN Num(0)            \* except: return 0
       ELSE LET t == Take(a, mask)
                p == Take(b, mask)
            IN Mean([j \in 1..Len(mask) |-> MapeTerm(t[j], p[j])])

SmapeTerm(t, p) == RDiv(RMul(Num(2), Num(Abs(t - p))), Num(Abs(t) + Abs(p)))

SMAPE(yt, yp) ==
    LET a == Ravel(yt)
        b == Ravel(yp)
        n == IF Len(a) > Len(b) THEN Len(a) ELSE Len(b)
        A(i) == IF Len(a) = 1 THEN a[1] ELSE a[i]      \* broadcasting
        B(i) == IF Len(b) = 1 THEN b[1] ELSE b[i]
    IN IF Len(a) # Len(b) /\ Len(a) # 1 /\ Len(b) # 1 THEN Num(0)  \* except: return 0
       ELSE LET mask == Where([i \in 1..n |-> Abs(A(i)) + Abs(B(i)) # 0])
            IN IF IndexError(a, mask) \/ IndexError(b, mask) THEN Num(0)
               ELSE LET t == Take(a, mask)
                        p == Take(b, mask)
                    IN Mean([j \in 1..Len(mask) |-> SmapeTerm(t[j], p[j])])

MSE(yt, yp) ==
    LET a == Ravel(yt)
        b == Ravel(yp)
    IN Mean([i \in 1..Len(a) |-> Num((a[i] - b[i]) * (a[i] - b[i]))])

RMSE(yt, yp) == Sqrt(MSE(Ravel(yt), Ravel(yp)))

MAE(yt, yp) ==
    LET a == Ravel(yt)
        b == Ravel(yp)
    IN Mean([i \in 1..Len(a) |-> Num(Abs(a[i] - b[i]))])

\* metrics = {'MAPE': MAPE, 'SMAPE': SMAPE, 'MSE': MSE, 'RMSE': RMSE, 'MAE': MAE}
metrics(m, yt, yp) ==
    CASE m = "MAPE" -> MAPE(yt, yp)
      [] m = "SMAPE" -> SMAPE(yt, yp)
      [] m = "MSE" -> MSE(yt, yp)
      [] m = "RMSE" -> RMSE(yt, yp)
      [] m = "MAE" -> MAE(yt, yp)

MetricNames == {"MAPE", "SMAPE", "MSE", "RMSE", "MAE"}

----------------------------------------------------------------------------
(* Calls of the error functions on drawn inputs *)

Vals == {-1, 0, 1, 2}

Arrays == UNION {[1..n -> Vals] : n \in 1..MaxLen}

PerfIdle ==
    /\ evaluation_df = <<>>
    /\ use_cv = FALSE
    /\ eval = [metrics |-> <<>>, get_perf_on_agg_forecast |-> FALSE]
    /\ pc = "idle"
    /\ df = <<>>
    /\ metrics_df = <<>>
    /\ metrics_dict = <<>>

MetricInit ==
    /\ y_true \in Arrays
    /\ y_pred \in {a \in Arrays : Len(a) = Len(y_true)}
    /\ called = "none"
    /\ ret = NaN
    /\ PerfIdle

Call(m) ==
    /\ called = "none"
    /\ called' = m
    /\ ret' = metrics(m, y_true, y_pred)
    /\ UNCHANGED <<y_true, y_pred>>
    /\ UNCHANGED perfVars

CallMAPE == Call("MAPE")
CallSMAPE == Call("SMAPE")
CallMSE == Call("MSE")
CallRMSE == Call("RMSE")
CallMAE == Call("MAE")

MetricNext == CallMAPE \/ CallSMAPE \/ CallMSE \/ CallRMSE \/ CallMAE

MetricSpec == MetricInit /\ [][MetricNext]_vars

----------------------------------------------------------------------------
(* Tables *)

Range(f) == {f[i] : i \in DOMAIN f}

RECURSIVE SortedAsc(_)
SortedAsc(S) ==
    IF S = {} THEN <<>>
    ELSE LET m == CHOOSE x \in S : \A y \in S : x <= y
         IN <<m>> \o SortedAsc(S \ {m})

\* df[col].unique()
Unique(d) == {d[i].key : i \in DOMAIN d}

\* keys in the order of their first appearance
RECURSIVE Appearance(_)
Appearance(d) ==
    IF d = <<>> THEN <<>>
    ELSE <<Head(d).key>> \o Appearance(SelectSeq(Tail(d), LAMBDA r : r.key # Head(d).key))

\* the rows of one group, in table order
Group(d, k) == SelectSeq(d, LAMBDA r : r.key = k)

Column(rows, col) == [i \in 1..Len(rows) |-> rows[i][col]]

RECURSIVE IntSum(_)
IntSum(xs) == IF xs = <<>> THEN 0 ELSE Head(xs) + IntSum(Tail(xs))

----------------------------------------------------------------------------
(* _preprocess_eval_df *)

\* lib.evaluation.preparation.add_time_groupers: attaches the grouping
\* columns and preserves every other column; the model's rows carry the
\* value of the eval['granularity'] column as `key`.
add_time_groupers(edf) == edf

_preprocess_eval_df(edf, cv) == IF cv THEN edf ELSE add_time_groupers(edf)

----------------------------------------------------------------------------
(* _compute_metrics *)

\* df.groupby(g).agg({'truth': 'sum', 'forecast': 'sum'}).reset_index()
GroupBySum(d) ==
    LET ks == SortedAsc(Unique(d))
    IN [i \in 1..Len(ks) |->
            [key |-> ks[i],
             truth |-> IntSum(Column(Group(d, ks[i]), "truth")),
             forecast |-> IntSum(Column(Group(d, ks[i]), "forecast"))]]

\* groupby(g)[['truth','forecast']].apply(f) without the sort: one value per
\* group, in order of first appearance
GroupByApplyUnsorted(d, m) ==
    LET ks == Appearance(d)
    IN [i \in 1..Len(ks) |->
            metrics(m, Column(Group(d, ks[i]), "truth"), Column(Group(d, ks[i]), "forecast"))]

\* df.groupby(g)[['truth','forecast']].apply(f).sort_index().to_list()
GroupByApply(d, m) ==
    LET ks == SortedAsc(Unique(d))
    IN [i \in 1..Len(ks) |->
            metrics(m, Column(Group(d, ks[i]), "truth"), Column(Group(d, ks[i]), "forecast"))]

\* in the aggregate branch x.truth and x.forecast are scalars, which
\* np.array(...).ravel() turns into one-element arrays
_compute_metrics(d, ev) ==
    LET ms == Range(ev.metrics)
    IN IF ev.get_perf_on_agg_forecast
       THEN LET g == GroupBySum(d)
            IN [i \in 1..Len(g) |->
                    [key |-> g[i].key, truth |-> g[i].truth, forecast |-> g[i].forecast,
                     vals |-> [m \in ms |-> metrics(m, <<g[i].truth>>, <<g[i].forecast>>)]]]
       ELSE LET scaffold == SortedAsc(Unique(d))
            IN [i \in 1..Len(scaffold) |->
                    [key |-> scaffold[i],
                     vals |-> [m \in ms |-> GroupByApply(d, m)[i]]]]

----------------------------------------------------------------------------
(* __format_metrics_df_cv *)

\* dates['folds_horizon']
FoldsHorizon == 5

\* lib.utils.mapping.convert_into_nb_of_days for a daily frequency
convert_into_nb_of_days(freq, horizon) == horizon

\* the model's timestamps are days of January and February of one year,
\* numbered from 1 (32 is 1 February)
MonthOf(t) == IF t <= 31 THEN 1 ELSE 2
DayOf(t) == IF t <= 31 THEN t ELSE t - 31

\* strings are sequences of code points: "0" is 48, "-" is 45
Digit(n) == 48 + n

Digits2(n) == <<Digit(n \div 10), Digit(n % 10)>>

\* str of a timestamp without zero padding of month and day
TimestampStrUnpadded(t) ==
    (IF MonthOf(t) < 10 THEN <<Digit(MonthOf(t))>> ELSE Digits2(MonthOf(t)))
        \o <<45>> \o (IF DayOf(t) < 10 THEN <<Digit(DayOf(t))>> ELSE Digits2(DayOf(t)))

\* Series.astype(str) of a timestamp, "YYYY-MM-DD": fixed width, zero padded
\* (the year, the same for all, is left out)
TimestampStr(t) == Digits2(MonthOf(t)) \o <<45>> \o Digits2(DayOf(t))

\* string comparison, character by character
RECURSIVE StrLess(_, _)
StrLess(a, b) ==
    IF a = <<>> THEN b # <<>>
    ELSE IF b = <<>> THEN FALSE
    ELSE IF Head(a) = Head(b) THEN StrLess(Tail(a), Tail(b))
    ELSE Head(a) < Head(b)

\* sort_values('Valid Start', ascending=False).reset_index(drop=True)
RECURSIVE SortValuesDesc(_)
SortValuesDesc(rows) ==
    IF rows = <<>> THEN <<>>
    ELSE LET i == CHOOSE j \in 1..Len(rows) :
                     \A k \in 1..Len(rows) : ~StrLess(rows[j].ValidStart, rows[k].ValidStart)
         IN <<rows[i]>> \o SortValuesDesc([j \in 1..(Len(rows) - 1) |->
                                               IF j < i THEN rows[j] ELSE rows[j + 1]])

FoldLabel(i) == <<"Fold", i>>

\* metrics_df.rename(columns={old: new})
Rename(r, old, new) ==
    [c \in (DOMAIN r \ {old}) \cup {new} |-> IF c = new THEN r[old] ELSE r[c]]

\* metrics_df[col] = value, row by row
SetColumn(r, col, v) == [c \in DOMAIN r \cup {col} |-> IF c = col THEN v ELSE r[c]]

\* resampling['freq'] is daily here, so the fold end is the start plus
\* timedelta(days=...); the seconds branch differs in the 'Valid End' text only
__format_metrics_df_cv(mdf) ==
    LET renamed == [i \in 1..Len(mdf) |-> Rename(mdf[i], "key", "ValidStart")]
        withEnd == [i \in 1..Len(mdf) |->
                        SetColumn(renamed[i], "ValidEnd",
                                  TimestampStr(renamed[i].ValidStart
                                      + convert_into_nb_of_days("D", FoldsHorizon)))]
        asStr == [i \in 1..Len(mdf) |->
                        SetColumn(withEnd[i], "ValidStart", TimestampStr(withEnd[i].ValidStart))]
        sorted == SortValuesDesc(asStr)
    IN [i \in 1..Len(sorted) |-> SetColumn(sorted[i], "key", FoldLabel(i))]

----------------------------------------------------------------------------
(* __format_metrics_values *)

\* config['metrics']: decimals per metric
ConfigMetrics(m) == IF m \in {"MAPE", "SMAPE"} THEN 2 ELSE 1

RECURSIVE Pow10(_)
Pow10(p) == IF p = 0 THEN 1 ELSE 10 * Pow10(p - 1)

\* the integer nearest to n/d (d > 0), halves to the even neighbour
RoundHalfEven(n, d) ==
    LET q == n \div d
        r == n % d
    IN IF 2 * r < d THEN q
       ELSE IF 2 * r > d THEN q + 1
       ELSE IF q % 2 = 0 THEN q ELSE q + 1

RECURSIVE ISqrtIn(_, _, _)
ISqrtIn(x, lo, hi) ==
    IF lo = hi THEN lo
    ELSE LET mid == (lo + hi + 1) \div 2
         IN IF mid * mid <= x THEN ISqrtIn(x, mid, hi) ELSE ISqrtIn(x, lo, mid - 1)

\* floor of the square root
ISqrt(x) == ISqrtIn(x, 0, IF x < 40000 THEN x ELSE 40000)

\* the integer nearest to sqrt(n/d) (n >= 0, d > 0)
RoundRoot(n, d) ==
    LET x == n \div d
        r == n % d
        k == ISqrt(x)
    IN IF x > k * k + k THEN k + 1
       ELSE IF x < k * k + k THEN k
       ELSE IF 4 * r > d THEN k + 1
       ELSE IF 4 * r < d THEN k
       ELSE IF k % 2 = 0 THEN k ELSE k + 1

\* round(x, p)
Round(x, p) ==
    IF IsNaN(x) THEN NaN
    ELSE IF Len(x) = 3
         THEN Frac(RoundRoot(x[1] * Pow10(p) * Pow10(p), x[2]), Pow10(p))
         ELSE Frac(RoundHalfEven(x[1] * Pow10(p), x[2]), Pow10(p))

\* '{:,.pf}'.format(x): the string is given by its digits, x * 10^p rounded
Format(x, p) ==
    IF IsNaN(x) THEN [text |-> "nan", scaled |-> 0, decimals |-> p]
    ELSE [text |-> "fixed", scaled |-> RoundHalfEven(x[1] * Pow10(p), x[2]), decimals |-> p]

FormatValue(x, col) == Format(Round(x, ConfigMetrics(col)), ConfigMetrics(col))

__format_metrics_values(mdf, ev) ==
    [i \in 1..Len(mdf) |->
        [mdf[i] EXCEPT !.vals = [m \in Range(ev.metrics) |-> FormatValue(mdf[i].vals[m], m)]]]

----------------------------------------------------------------------------
(* per-metric tables, __add_avg_std_metrics *)

\* the per-metric tables taken from the table after its values are rounded
PerMetricTablesRounded(mdf, ev) ==
    [m \in Range(ev.metrics) |->
        [i \in 1..Len(mdf) |->
            [key |-> mdf[i].key, value |-> Round(mdf[i].vals[m], ConfigMetrics(m))]]]

\* {m: metrics_df[[eval['granularity'], m]] for m in eval['metrics']}
PerMetricTables(mdf, ev) ==
    [m \in Range(ev.metrics) |->
        [i \in 1..Len(mdf) |-> [key |-> mdf[i].key, value |-> mdf[i].vals[m]]]]

NotNaN(xs) == SelectSeq(xs, LAMBDA v : ~IsNaN(v))

\* DataFrame.mean(axis=0): nan skipped
ColMean(xs) == Mean(NotNaN(xs))

SumSqDev(ys) ==
    LET mu == Mean(ys)
    IN RSum([i \in 1..Len(ys) |-> RMul(RSub(ys[i], mu), RSub(ys[i], mu))])

\* DataFrame.std(axis=0): nan skipped, ddof = 1
ColStd(xs) ==
    LET ys == NotNaN(xs)
    IN IF Len(ys) <= 1 THEN NaN ELSE Sqrt(RDiv(SumSqDev(ys), Num(Len(ys) - 1)))

\* the summary rows put in front of the fold rows
AddAvgStdFirst(mdf, ev) ==
    LET ms == Range(ev.metrics)
        col(m) == [i \in 1..Len(mdf) |-> mdf[i].vals[m]]
    IN <<[key |-> <<"Avg">>, ValidStart |-> <<>>, ValidEnd |-> "Average",
          vals |-> [m \in ms |-> ColMean(col(m))]],
         [key |-> <<"Std">>, ValidStart |-> <<>>, ValidEnd |-> "+/-",
          vals |-> [m \in ms |-> ColStd(col(m))]]>>
        \o [i \in 1..Len(mdf) |->
                [key |-> mdf[i].key, ValidStart |-> mdf[i].ValidStart,
                 ValidEnd |-> mdf[i].ValidEnd, vals |-> mdf[i].vals]]

__add_avg_std_metrics(mdf, ev) ==
    LET ms == Range(ev.metrics)
        avg == [key |-> <<"Avg">>, ValidStart |-> <<>>, ValidEnd |-> "Average",
                vals |-> [m \in ms |-> ColMean([i \in 1..Len(mdf) |-> mdf[i].vals[m]])]]
        indexed == [i \in 1..Len(mdf) |->
                        [key |-> mdf[i].key, ValidStart |-> mdf[i].ValidStart,
                         ValidEnd |-> mdf[i].ValidEnd, vals |-> mdf[i].vals]]
        withAvg == Append(indexed, avg)
        std == [key |-> <<"Std">>, ValidStart |-> <<>>, ValidEnd |-> "+/-",
                vals |-> [m \in ms |->
                            ColStd([i \in 1..Len(withAvg) |-> withAvg[i].vals[m]])]]
    IN Append(withAvg, std)

\* metrics_df[[granularity] + metrics].set_index([granularity])
SetIndex(mdf) == [i \in 1..Len(mdf) |-> [key |-> mdf[i].key, vals |-> mdf[i].vals]]

----------------------------------------------------------------------------
(* get_perf_metrics *)

\* grouping keys: cutoffs (9 and 10 January, 1 February) or bucket numbers
Keys == {9, 10, 32}

TruthForecast == {<<10, 10>>, <<0, 5>>, <<2, 1>>}

Rows == {[key |-> k, truth |-> tf[1], forecast |-> tf[2]] : k \in Keys, tf \in TruthForecast}

\* the documented example: group 9 with truth [10,10], forecast [10,10] and
\* group 10 with truth [0,0], forecast [5,5]
ExampleTable ==
    <<[key |-> 9, truth |-> 10, forecast |-> 10], [key |-> 9, truth |-> 10, forecast |-> 10],
      [key |-> 10, truth |-> 0, forecast |-> 5], [key |-> 10, truth |-> 0, forecast |-> 5]>>

Tables == UNION {[1..n -> Rows] : n \in 1..MaxRows} \cup {ExampleTable}

\* eval['metrics']; a request with RMSE is drawn in plain mode only, the mean
\* of square roots over the folds having no exact form here
Requests == {<<"MAPE", "MAE">>, <<"SMAPE", "MSE", "MAPE">>, <<"RMSE", "MAE">>}

MetricIdle ==
    /\ y_true = <<>>
    /\ y_pred = <<>>
    /\ called = "none"
    /\ ret = NaN

Init ==
    /\ evaluation_df \in Tables
    /\ use_cv \in BOOLEAN
    /\ eval \in [metrics : Requests, get_perf_on_agg_forecast : BOOLEAN]
    /\ use_cv => "RMSE" \notin Range(eval.metrics)
    /\ pc = "start"
    /\ df = <<>>
    /\ metrics_df = <<>>
    /\ metrics_dict = <<>>
    /\ MetricIdle

Preprocess ==
    /\ pc = "start"
    /\ df' = _preprocess_eval_df(evaluation_df, use_cv)
    /\ pc' = "preprocessed"
    /\ UNCHANGED <<evaluation_df, use_cv, eval, metrics_df, metrics_dict>>
    /\ UNCHANGED metricVars

ComputeMetrics ==
    /\ pc = "preprocessed"
    /\ metrics_df' = _compute_metrics(df, eval)
    /\ pc' = "computed"
    /\ UNCHANGED <<evaluation_df, use_cv, eval, df, metrics_dict>>
    /\ UNCHANGED metricVars

FormatMetricsDfCv ==
    /\ pc = "computed"
    /\ use_cv
    /\ metrics_df' = __format_metrics_df_cv(metrics_df)
    /\ pc' = "cv_formatted"
    /\ UNCHANGED <<evaluation_df, use_cv, eval, df, metrics_dict>>
    /\ UNCHANGED metricVars

ExtractMetricsDict ==
    /\ pc = IF use_cv THEN "cv_formatted" ELSE "computed"
    /\ metrics_dict' = PerMetricTables(metrics_df, eval)
    /\ pc' = "extracted"
    /\ UNCHANGED <<evaluation_df, use_cv, eval, df, metrics_df>>
    /\ UNCHANGED metricVars

AddAvgStdMetrics ==
    /\ pc = "extracted"
    /\ use_cv
    /\ metrics_df' = __add_avg_std_metrics(metrics_df, eval)
    /\ pc' = "indexed"
    /\ UNCHANGED <<evaluation_df, use_cv, eval, df, metrics_dict>>
    /\ UNCHANGED metricVars

SetGranularityIndex ==
    /\ pc = "extracted"
    /\ ~use_cv
    /\ metrics_df' = SetIndex(metrics_df)
    /\ pc' = "indexed"
    /\ UNCHANGED <<evaluation_df, use_cv, eval, df, metrics_dict>>
    /\ UNCHANGED metricVars

FormatMetricsValues ==
    /\ pc = "indexed"
    /\ metrics_df' = __format_metrics_values(metrics_df, eval)
    /\ pc' = "done"
    /\ UNCHANGED <<evaluation_df, use_cv, eval, df, metrics_dict>>
    /\ UNCHANGED metricVars

Next ==
    \/ Preprocess
    \/ ComputeMetrics
    \/ FormatMetricsDfCv
    \/ ExtractMetricsDict
    \/ AddAvgStdMetrics
    \/ SetGranularityIndex
    \/ FormatMetricsValues

Spec == Init /\ [][Next]_vars

----------------------------------------------------------------------------
(* Properties of the error functions, checked under MetricSpec *)

AllZero(y) == \A i \in 1..Len(y) : y[i] = 0

RECURSIVE SumOver(_, _)
SumOver(S, f) ==
    IF S = {} THEN Num(0)
    ELSE LET i == CHOOSE j \in S : TRUE IN RAdd(f[i], SumOver(S \ {i}, f))

\* C1: MAPE and SMAPE return exactly 0 (a number, not nan) for every
\* non-empty input whose truth values are all 0, whatever the forecast.
C1_AllZeroTruthReturnsZero ==
    (called \in {"MAPE", "SMAPE"} /\ Len(y_true) > 0 /\ AllZero(y_true))
        => FloatEq(ret, Num(0))

\* C6: MAPE is the sum of |(truth-forecast)/truth| over the positions with
\* truth # 0 divided by the number of those positions, SMAPE the sum of
\* 2|truth-forecast|/(|truth|+|forecast|) over the positions with a non-zero
\* denominator divided by their number (0/0, nan, when there is none).
C6_FilterThenAverage ==
    LET N == 1..Len(y_true)
        PM == {i \in N : y_true[i] # 0}
        PS == {i \in N : Abs(y_true[i]) + Abs(y_pred[i]) # 0}
        tm == [i \in PM |-> Frac(Abs(y_true[i] - y_pred[i]), Abs(y_true[i]))]
        ts == [i \in PS |-> Frac(2 * Abs(y_true[i] - y_pred[i]),
                                  Abs(y_true[i]) + Abs(y_pred[i]))]
    IN /\ called = "MAPE" => ret = RDiv(SumOver(PM, tm), Num(Cardinality(PM)))
       /\ called = "SMAPE" => ret = RDiv(SumOver(PS, ts), Num(Cardinality(PS)))

\* a zero-truth point next to a non-zero one with an error: the filtered
\* count differs from the length
C6_Witness ==
    /\ called = "MAPE"
    /\ \E i, j \in 1..Len(y_true) : y_true[i] = 0 /\ y_true[j] # 0 /\ y_true[j] # y_pred[j]
    /\ ~IsNaN(ret) /\ ret[1] # 0

\* C7: MAE, MSE, RMSE and SMAPE return equal values with the arguments
\* exchanged, for all equal-length inputs; MAPE does not for some inputs.
C7_Symmetric ==
    called \in {"MAE", "MSE", "RMSE", "SMAPE"}
        => FloatEq(ret, metrics(called, y_pred, y_true))

\* C8: with at least one non-zero truth value MAPE and SMAPE return a
\* non-negative number, and 0 when truth equals forecast at every position.
C8_NonNegativeZeroOnEqual ==
    (called \in {"MAPE", "SMAPE"} /\ ~AllZero(y_true))
        => /\ FloatGeqZero(ret)
           /\ y_true = y_pred => FloatEq(ret, Num(0))

C8_Witness ==
    /\ called = "SMAPE"
    /\ y_true = y_pred
    /\ \E i, j \in 1..Len(y_true) : y_true[i] < 0 /\ y_true[j] = 0
    /\ ret = Num(0)

----------------------------------------------------------------------------
(* Properties of get_perf_metrics, checked under Spec *)

\* the folds' cutoffs, latest first
RECURSIVE SortedDesc(_)
SortedDesc(S) ==
    IF S = {} THEN <<>>
    ELSE LET m == CHOOSE x \in S : \A y \in S : x >= y
         IN <<m>> \o SortedDesc(S \ {m})

\* the value of metric m for the group with key k of the input table
GroupValue(m, k) ==
    LET rows == SelectSeq(evaluation_df, LAMBDA r : r.key = k)
        t == [i \in 1..Len(rows) |-> rows[i].truth]
        f == [i \in 1..Len(rows) |-> rows[i].forecast]
    IN IF eval.get_perf_on_agg_forecast
       THEN metrics(m, <<IntSum(t)>>, <<IntSum(f)>>)
       ELSE metrics(m, t, f)

InputKeys == {evaluation_df[i].key : i \in DOMAIN evaluation_df}

\* the groups in output order, and their labels
GroupOrder == IF use_cv THEN SortedDesc(InputKeys) ELSE SortedAsc(InputKeys)
GroupLabel(i) == IF use_cv THEN <<"Fold", i>> ELSE GroupOrder[i]

Requested == {eval.metrics[i] : i \in DOMAIN eval.metrics}

SampleStd(xs) ==
    LET ys == SelectSeq(xs, LAMBDA v : ~IsNaN(v))
        n == Len(ys)
        mu == RDiv(RSum(ys), Num(n))
        ss == RSum([i \in 1..n |-> RMul(RSub(ys[i], mu), RSub(ys[i], mu))])
    IN IF n = 0 THEN NaN ELSE Sqrt(RDiv(ss, Num(n - 1)))

\* C2: in cross-validation mode the 'Std' row of the returned display table
\* holds, for every requested metric, the sample standard deviation (N-1) of
\* the N fold values, the 'Avg' row not being among them.
C2_StdOverFoldRowsOnly ==
    (pc = "done" /\ use_cv)
        => LET std == metrics_df[Len(metrics_df)]
               folds(m) == [i \in 1..Len(GroupOrder) |-> GroupValue(m, GroupOrder[i])]
           IN /\ std.key = <<"Std">>
              /\ \A m \in Requested : std.vals[m] = FormatValue(SampleStd(folds(m)), m)

\* C3 as stated: every key of the returned mapping is a requested metric, and
\* each per-metric table's group keys are, element for element, the display
\* table's index, in both modes.
C3_SameGroupsBothModes ==
    pc = "done"
        => /\ DOMAIN metrics_dict \subseteq Requested
           /\ \A m \in DOMAIN metrics_dict :
                [i \in 1..Len(metrics_dict[m]) |-> metrics_dict[m][i].key]
                    = [i \in 1..Len(metrics_df) |-> metrics_df[i].key]

\* C3 amended: every key of the returned mapping is a requested metric; in
\* plain mode each per-metric table's group keys are the display table's
\* index, element for element; in cross-validation mode the display table's
\* index is the per-metric table's group keys followed by 'Avg' and 'Std'.
C3_SameGroupsUpToSummaryRows ==
    pc = "done"
        => /\ DOMAIN metrics_dict \subseteq Requested
           /\ \A m \in DOMAIN metrics_dict :
                LET ks == [i \in 1..Len(metrics_dict[m]) |-> metrics_dict[m][i].key]
                    ix == [i \in 1..Len(metrics_df) |-> metrics_df[i].key]
                IN ix = IF use_cv THEN ks \o << <<"Avg">>, <<"Std">> >> ELSE ks

C3_Witness ==
    /\ pc = "done"
    /\ use_cv
    /\ Len(metrics_df) = 5
    /\ Len(eval.metrics) = 3

\* C4: in plain mode with aggregate-then-score, on the documented example
\* (group 9: truth [10,10], forecast [10,10]; group 10: truth [0,0],
\* forecast [5,5]) MAPE is 0 for both groups and MAE is 5 for the second.
C4_Example ==
    (/\ pc = "computed" /\ ~use_cv /\ eval.get_perf_on_agg_forecast
     /\ evaluation_df = ExampleTable /\ eval.metrics = <<"MAPE", "MAE">>)
        => /\ Len(metrics_df) = 2
           /\ metrics_df[1].key = 9 /\ FloatEq(metrics_df[1].vals["MAPE"], Num(0))
           /\ metrics_df[2].key = 10 /\ FloatEq(metrics_df[2].vals["MAPE"], Num(0))
           /\ FloatEq(metrics_df[2].vals["MAE"], Num(5))

\* C5: after __format_metrics_df_cv the fold with the latest cutoff is
\* 'Fold 1' and 'Fold 1' .. 'Fold N' follow strictly decreasing cutoffs, each
\* label used once (and each row keeps its own fold's values).
C5_FoldsLatestFirst ==
    (pc = "cv_formatted")
        => /\ Len(metrics_df) = Len(GroupOrder)
           /\ \A i \in 1..Len(metrics_df) :
                /\ metrics_df[i].key = <<"Fold", i>>
                /\ metrics_df[i].ValidStart = TimestampStr(GroupOrder[i])
                /\ \A m \in Requested : metrics_df[i].vals[m] = GroupValue(m, GroupOrder[i])
           /\ \A i \in 1..(Len(GroupOrder) - 1) : GroupOrder[i + 1] < GroupOrder[i]

\* three folds met in the input in increasing order, across a month's end
C5_Witness ==
    /\ pc = "cv_formatted"
    /\ Len(metrics_df) = 3
    /\ Len(evaluation_df) = 3
    /\ evaluation_df[1].key = 9 /\ evaluation_df[2].key = 10 /\ evaluation_df[3].key = 32
    /\ metrics_df[1].ValidStart = <<48, 50, 45, 48, 49>>

\* C9: once extracted, the per-metric tables stay as they were through the
\* Avg/Std rows and the formatting: raw metric values, one row per group (the
\* N folds in cross-validation mode), no 'Avg' or 'Std' row.
C9_PerMetricTablesRaw ==
    pc \in {"extracted", "indexed", "done"}
        => metrics_dict =
              [m \in Requested |->
                  [i \in 1..Len(GroupOrder) |->
                      [key |-> GroupLabel(i), value |-> GroupValue(m, GroupOrder[i])]]]

\* a returned per-metric table whose raw value differs from the displayed one
C9_Witness ==
    /\ pc = "done"
    /\ use_cv
    /\ Len(GroupOrder) = 2
    /\ "MAPE" \in Requested
    /\ \E i \in 1..2 : metrics_dict["MAPE"][i].value = <<1, 12>>

\* C10: in per-row mode _compute_metrics returns one row per distinct key, in
\* ascending key order, each metric being the metric function applied to the
\* truth/forecast vectors of the rows of that row's own group.
C10_PerRowAligned ==
    (pc = "computed" /\ ~eval.get_perf_on_agg_forecast)
        => /\ Len(metrics_df) = Cardinality(InputKeys)
           /\ \A i \in 1..(Len(metrics_df) - 1) : metrics_df[i].key < metrics_df[i + 1].key
           /\ \A i \in 1..Len(metrics_df) :
                /\ metrics_df[i].key \in InputKeys
                /\ \A m \in Requested :
                     metrics_df[i].vals[m] = GroupValue(m, metrics_df[i].key)

\* groups met in descending key order whose values differ
C10_Witness ==
    /\ pc = "computed"
    /\ ~eval.get_perf_on_agg_forecast
    /\ Len(evaluation_df) = 3
    /\ evaluation_df[1].key = 32 /\ evaluation_df[2].key = 9 /\ evaluation_df[3].key = 32
    /\ "MAE" \in Requested
    /\ metrics_df[1].vals["MAE"] # metrics_df[2].vals["MAE"]

====
